---- MODULE Spec2Model ----
(***************************************************************************)
(* Model of baseserver.Server (components/common-go/baseserver/server.go): *)
(* the lifecycle of the debug, HTTP and gRPC servers, started by           *)
(* ListenAndServe and torn down by Close / close.                          *)
(*                                                                         *)
(* Processes: "main" runs ListenAndServe; one accept-loop goroutine per    *)
(* server (named like the server); external callers of Close.              *)
(* The library calls are modelled by their documented behaviour:           *)
(*   net/http  Server.Serve     returns a non-nil error always, closes the *)
(*                              listener on return, returns at once        *)
(*                              (ErrServerClosed) on a server in shutdown; *)
(*   net/http  Server.Shutdown  closes the tracked listeners, waits for    *)
(*                              the connections to become idle, returns    *)
(*                              ctx.Err() when the context expires first;  *)
(*   grpc      Server.Serve     returns nil after GracefulStop, an error   *)
(*                              otherwise, closes the listener on return;  *)
(*   grpc      GracefulStop     closes the listeners and waits for the     *)
(*                              pending calls, takes no context;           *)
(*   sync.Once Do               runs the function of the first caller,     *)
(*                              blocks the others until it has returned.   *)
(***************************************************************************)
EXTENDS Naturals, Sequences, FiniteSets, TLC

\* number of external callers of Close, each calling once
MaxClosers == 1
\* number of ListenAndServe calls on the one Server
MaxStarts == 2

Servers == {"debug", "http", "grpc"}

ExtNames == <<"x1", "x2", "x3", "x4">>

Externals == {ExtNames[i] : i \in 1..MaxClosers}

Procs == {"main"} \cup Servers \cup Externals

VARIABLES
    cfg,        \* options.config.Services: the configured services
    listening,  \* s.listening: "nil", "open" or "closed"
    closeOnce,  \* s.closeOnce: "fresh", "running" or "done"
    listenerRef,\* s.debugListener, s.httpListener, s.grpcListener # nil
    sock,       \* the socket of the last listener bound for a server
    shut,       \* the server object was told to stop (Shutdown, GracefulStop)
    busy,       \* servers with in-flight work (connections, pending calls)
    pc,         \* position of every process
    result,     \* value returned by the last Close call of a process
    ctxDone,    \* the deadline of the context of the running close expired
    tlog,       \* steps the teardown has taken, in order
    lasErr,     \* value ListenAndServe is returning / has returned
    starts,     \* number of ListenAndServe calls so far
    binds       \* net.Listen calls of the current ListenAndServe call, in order

vars == <<cfg, listening, closeOnce, listenerRef, sock, shut, busy, pc,
          result, ctxDone, tlog, lasErr, starts, binds>>

Init ==
    /\ cfg \in SUBSET Servers
    /\ listening = "nil"
    /\ closeOnce = "fresh"
    /\ listenerRef = [s \in Servers |-> FALSE]
    /\ sock = [s \in Servers |-> "none"]
    /\ shut = [s \in Servers |-> FALSE]
    /\ busy = {}
    /\ pc = [p \in Procs |-> IF p \in Servers THEN "none" ELSE "idle"]
    /\ result = [p \in Procs |-> "none"]
    /\ ctxDone = FALSE
    /\ tlog = <<>>
    /\ lasErr = "none"
    /\ starts = 0
    /\ binds = <<>>

isClosing == listening = "closed"

Logged(e) == \E i \in 1..Len(tlog) : tlog[i] = e

----
\* ListenAndServe

\* the HTTP listener bound ahead of the debug listener
BindPc_HttpFirst(after) ==
    IF "http" \in cfg \ after THEN "bind_http"
    ELSE IF "debug" \in cfg \ after THEN "bind_debug"
    ELSE IF "grpc" \in cfg \ after THEN "bind_grpc"
    ELSE "wait"

\* the bind that follows the binds of the services in `after`
BindPc(after) ==
    IF "debug" \in cfg \ after THEN "bind_debug"
    ELSE IF "http" \in cfg \ after THEN "bind_http"
    ELSE IF "grpc" \in cfg \ after THEN "bind_grpc"
    ELSE "wait"

Before(s) ==
    IF s = "debug" THEN {"debug"}
    ELSE IF s = "http" THEN {"debug", "http"}
    ELSE Servers

\* line 109: s.listening = make(chan struct{}); the deferred Close is armed.
\* A further call on the same Server is taken once the previous call has
\* returned and the accept loops it spawned have ended.
ListenAndServe ==
    /\ pc["main"] \in {"idle", "done"}
    /\ starts < MaxStarts
    /\ \A s \in Servers : pc[s] \in {"none", "done"}
    /\ starts' = starts + 1
    /\ listening' = "open"
    /\ lasErr' = "none"
    /\ binds' = <<>>
    /\ pc' = [pc EXCEPT !["main"] = BindPc({})]
    /\ UNCHANGED <<cfg, closeOnce, listenerRef, sock, shut, busy, result,
                   ctxDone, tlog>>

\* lines 118, 134, 150: net.Listen succeeds, the accept loop is spawned
BindOk(s) ==
    /\ pc["main"] = "bind_" \o s
    /\ listenerRef' = [listenerRef EXCEPT ![s] = TRUE]
    /\ sock' = [sock EXCEPT ![s] = "open"]
    /\ pc' = [pc EXCEPT ![s] = "spawned", !["main"] = BindPc(Before(s))]
    /\ binds' = Append(binds, [srv |-> s, ok |-> TRUE])
    /\ UNCHANGED <<cfg, listening, closeOnce, shut, busy, result, ctxDone,
                   tlog, lasErr, starts>>

\* lines 119-121, 135-137, 151-153: net.Listen fails, return the error
BindFail(s) ==
    /\ pc["main"] = "bind_" \o s
    /\ listenerRef' = [listenerRef EXCEPT ![s] = FALSE]
    /\ lasErr' = "binderr"
    /\ pc' = [pc EXCEPT !["main"] = "close"]
    /\ binds' = Append(binds, [srv |-> s, ok |-> FALSE])
    /\ UNCHANGED <<cfg, listening, closeOnce, sock, shut, busy, result,
                   ctxDone, tlog, starts>>

\* lines 168-172: the select has the signal case only
Signal ==
    /\ pc["main"] = "wait"
    /\ lasErr' = "nil"
    /\ pc' = [pc EXCEPT !["main"] = "close"]
    /\ UNCHANGED <<cfg, listening, closeOnce, listenerRef, sock, shut, busy,
                   result, ctxDone, tlog, starts, binds>>

----
\* accept-loop goroutines, lines 124-130, 140-146, 155-161

\* Serve is entered: a server already stopped returns an error at once
\* and closes the listener it was given
Serve(s) ==
    /\ pc[s] = "spawned"
    /\ IF shut[s]
       THEN /\ sock' = [sock EXCEPT ![s] = "closed"]
            /\ pc' = [pc EXCEPT ![s] = "close"]
       ELSE /\ pc' = [pc EXCEPT ![s] = "serving"]
            /\ UNCHANGED sock
    /\ UNCHANGED <<cfg, listening, closeOnce, listenerRef, shut, busy, result,
                   ctxDone, tlog, lasErr, starts, binds>>

\* Serve returns an error of its own (Accept failed): err != nil, s.Close()
AcceptFail(s) ==
    /\ pc[s] = "serving"
    /\ sock' = [sock EXCEPT ![s] = "closed"]
    /\ pc' = [pc EXCEPT ![s] = "close"]
    /\ UNCHANGED <<cfg, listening, closeOnce, listenerRef, shut, busy, result,
                   ctxDone, tlog, lasErr, starts, binds>>

\* a connection / call is accepted and stays in flight
ConnOpen(s) ==
    /\ pc[s] = "serving"
    /\ s \notin busy
    /\ busy' = busy \cup {s}
    /\ UNCHANGED <<cfg, listening, closeOnce, listenerRef, sock, shut, pc,
                   result, ctxDone, tlog, lasErr, starts, binds>>

\* the in-flight work of a server finishes
ConnDone(s) ==
    /\ s \in busy
    /\ busy' = busy \ {s}
    /\ UNCHANGED <<cfg, listening, closeOnce, listenerRef, sock, shut, pc,
                   result, ctxDone, tlog, lasErr, starts, binds>>

----
\* Close, lines 175-184

ReadyToClose(p) == pc[p] = (IF p \in Externals THEN "idle" ELSE "close")

\* Do that does not block while the function of the first caller runs
OnceLoser_NoWait(p) ==
    /\ pc' = [pc EXCEPT ![p] = "done"]
    /\ result' = [result EXCEPT ![p] = "nil"]

\* a caller that did not run the function returns its own err, which is nil
OnceLoser(p) ==
    IF closeOnce = "running"
    THEN /\ pc' = [pc EXCEPT ![p] = "once_wait"]
         /\ UNCHANGED result
    ELSE /\ pc' = [pc EXCEPT ![p] = "done"]
         /\ result' = [result EXCEPT ![p] = "nil"]

\* a caller blocked in Do is released when the function has returned
OnceWake(p) ==
    /\ pc[p] = "once_wait"
    /\ closeOnce = "done"
    /\ pc' = [pc EXCEPT ![p] = "done"]
    /\ result' = [result EXCEPT ![p] = "nil"]
    /\ UNCHANGED <<cfg, listening, closeOnce, listenerRef, sock, shut, busy,
                   ctxDone, tlog, lasErr, starts, binds>>

\* context.WithTimeout(..., closeTimeout): the deadline passes
Timeout ==
    /\ closeOnce = "running"
    /\ ~ctxDone
    /\ ctxDone' = TRUE
    /\ UNCHANGED <<cfg, listening, closeOnce, listenerRef, sock, shut, busy,
                   pc, result, tlog, lasErr, starts, binds>>

----
\* close, lines 202-244

\* close returns r; Do is over and Close returns r to the winner
Return(p, r) ==
    /\ closeOnce' = "done"
    /\ result' = [result EXCEPT ![p] = r]
    /\ pc' = [pc EXCEPT ![p] = "done"]

\* lines 203-213: the guards of close and close(s.listening)
closeGuard(p) ==
    /\ tlog' = IF listening = "open" THEN tlog \o <<"body", "closing">>
                ELSE Append(tlog, "body")
    /\ IF listening = "nil"
       THEN /\ Return(p, "ErrNotRunning")
            /\ UNCHANGED listening
       ELSE IF isClosing
       THEN /\ Return(p, "nil")
            /\ UNCHANGED listening
       ELSE /\ listening' = "closed"
            /\ closeOnce' = "running"
            /\ pc' = [pc EXCEPT ![p] = "c_grpc"]
            /\ UNCHANGED result

\* Close without the Once: every caller runs close
Close_NoOnce(p) ==
    /\ ReadyToClose(p)
    /\ closeGuard(p)
    /\ UNCHANGED <<cfg, listenerRef, sock, shut, busy, ctxDone, lasErr,
                   starts, binds>>

\* lines 175-184: s.closeOnce.Do(...) is entered; the first caller runs close
Close(p) ==
    /\ ReadyToClose(p)
    /\ IF closeOnce = "fresh"
       THEN closeGuard(p)
       ELSE /\ OnceLoser(p)
            /\ UNCHANGED <<closeOnce, listening, tlog>>
    /\ UNCHANGED <<cfg, listenerRef, sock, shut, busy, ctxDone, lasErr,
                   starts, binds>>

\* the listener a serving accept loop has registered is closed by the stop
SockAfterStop(s) ==
    IF pc[s] = "serving" THEN [sock EXCEPT ![s] = "closed"] ELSE sock

\* line 216, first half: the gRPC server stops accepting; Serve returns nil
GracefulStop(p) ==
    /\ pc[p] = "c_grpc"
    /\ shut' = [shut EXCEPT !["grpc"] = TRUE]
    /\ sock' = SockAfterStop("grpc")
    /\ pc' = [pc EXCEPT !["grpc"] = IF @ = "serving" THEN "done" ELSE @,
                        ![p] = "c_grpc_wait"]
    /\ tlog' = Append(tlog, "grpc_begin")
    /\ UNCHANGED <<cfg, listening, closeOnce, listenerRef, busy, result,
                   ctxDone, lasErr, starts, binds>>

\* close with the debug server shut down before the HTTP server
GracefulStopped_DebugFirst(p) ==
    /\ pc[p] = "c_grpc_wait"
    /\ "grpc" \notin busy
    /\ listenerRef' = [listenerRef EXCEPT !["grpc"] = FALSE]
    /\ pc' = [pc EXCEPT ![p] = "c_debug"]
    /\ tlog' = Append(tlog, "grpc_end")
    /\ UNCHANGED <<cfg, listening, closeOnce, sock, shut, busy, result,
                   ctxDone, lasErr, starts, binds>>

\* a graceful stop that gives up at the deadline and reports it
GracefulStopped_Err(p) ==
    /\ pc[p] = "c_grpc_wait"
    /\ \/ /\ "grpc" \notin busy
          /\ listenerRef' = [listenerRef EXCEPT !["grpc"] = FALSE]
          /\ pc' = [pc EXCEPT ![p] = "c_http"]
          /\ tlog' = Append(tlog, "grpc_end")
          /\ UNCHANGED <<closeOnce, result>>
       \/ /\ "grpc" \in busy
          /\ ctxDone
          /\ Return(p, "ErrGRPC")
          /\ tlog' = Append(tlog, "grpc_err")
          /\ UNCHANGED listenerRef
    /\ UNCHANGED <<cfg, listening, sock, shut, busy, ctxDone, lasErr, starts,
                   binds>>

\* lines 216-219: GracefulStop returns when no call is pending
GracefulStopped(p) ==
    /\ pc[p] = "c_grpc_wait"
    /\ "grpc" \notin busy
    /\ listenerRef' = [listenerRef EXCEPT !["grpc"] = FALSE]
    /\ pc' = [pc EXCEPT ![p] = "c_http"]
    /\ tlog' = Append(tlog, "grpc_end")
    /\ UNCHANGED <<cfg, listening, closeOnce, sock, shut, busy, result,
                   ctxDone, lasErr, starts, binds>>

\* lines 223, 234, first half: Shutdown closes the listeners; Serve
\* returns ErrServerClosed, so the accept loop goes on to s.Close()
Shutdown(p, s) ==
    /\ pc[p] = "c_" \o s
    /\ shut' = [shut EXCEPT ![s] = TRUE]
    /\ sock' = SockAfterStop(s)
    /\ pc' = [pc EXCEPT ![s] = IF @ = "serving" THEN "close" ELSE @,
                        ![p] = "c_" \o s \o "_wait"]
    /\ tlog' = Append(tlog, s \o "_begin")
    /\ UNCHANGED <<cfg, listening, closeOnce, listenerRef, busy, result,
                   ctxDone, lasErr, starts, binds>>

\* lines 223-229: http.Shutdown returned: nil once the connections are idle,
\* ctx.Err() when the deadline passes while one is still active
httpShutdownReturned(p) ==
    /\ pc[p] = "c_http_wait"
    /\ \/ /\ "http" \notin busy
          /\ listenerRef' = [listenerRef EXCEPT !["http"] = FALSE]
          /\ pc' = [pc EXCEPT ![p] = "c_debug"]
          /\ tlog' = Append(tlog, "http_end")
          /\ UNCHANGED <<closeOnce, result>>
       \/ /\ "http" \in busy
          /\ ctxDone
          /\ Return(p, "ErrHTTP")
          /\ tlog' = Append(tlog, "http_err")
          /\ UNCHANGED listenerRef
    /\ UNCHANGED <<cfg, listening, sock, shut, busy, ctxDone, lasErr, starts, binds>>

\* a teardown that waits for the accept loops to end before it returns
debugShutdownReturned_WaitLoops(p) ==
    /\ pc[p] = "c_debug_wait"
    /\ \A s \in Servers \ {p} : pc[s] \in {"none", "done"}
    /\ \/ /\ "debug" \notin busy
          /\ listenerRef' = [listenerRef EXCEPT !["debug"] = FALSE]
          /\ Return(p, "nil")
          /\ tlog' = Append(tlog, "debug_end")
       \/ /\ "debug" \in busy
          /\ ctxDone
          /\ Return(p, "ErrDebug")
          /\ tlog' = Append(tlog, "debug_err")
          /\ UNCHANGED listenerRef
    /\ UNCHANGED <<cfg, listening, sock, shut, busy, ctxDone, lasErr, starts,
                   binds>>

\* lines 234-243: debug.Shutdown returned
debugShutdownReturned(p) ==
    /\ pc[p] = "c_debug_wait"
    /\ \/ /\ "debug" \notin busy
          /\ listenerRef' = [listenerRef EXCEPT !["debug"] = FALSE]
          /\ Return(p, "nil")
          /\ tlog' = Append(tlog, "debug_end")
       \/ /\ "debug" \in busy
          /\ ctxDone
          /\ Return(p, "ErrDebug")
          /\ tlog' = Append(tlog, "debug_err")
          /\ UNCHANGED listenerRef
    /\ UNCHANGED <<cfg, listening, sock, shut, busy, ctxDone, lasErr, starts, binds>>

close(p) ==
    \/ GracefulStop(p)
    \/ GracefulStopped(p)
    \/ Shutdown(p, "http")
    \/ httpShutdownReturned(p)
    \/ Shutdown(p, "debug")
    \/ debugShutdownReturned(p)

----
\* address queries, lines 322-342

\* httpAddress with the nil check on the listener left out
httpAddress_NoNilCheck(s) == "http://" \o s

\* lines 322-331: "" without a listener, protocol://address otherwise
\* (the listeners are modelled without TLS)
httpAddress(s) == IF ~listenerRef[s] THEN "" ELSE "http://" \o s

\* ServerConfiguration.GetAddress: the configured address, "" when the
\* service is not configured
GetAddress(s) == IF s \in cfg THEN "addr-" \o s ELSE ""

DebugAddress == httpAddress("debug")

HTTPAddress == httpAddress("http")

GRPCAddress == GetAddress("grpc")

\* /ready is served by options.healthHandler.ReadyEndpoint (line 261): the
\* answer depends on the health checks of the application only
ReadyEndpoint(healthy) == IF healthy THEN "ready" ELSE "not ready"

----
Next ==
    \/ ListenAndServe
    \/ \E s \in Servers : BindOk(s)
    \/ \E s \in Servers : BindFail(s)
    \/ Signal
    \/ \E s \in Servers : Serve(s)
    \/ \E s \in Servers : AcceptFail(s)
    \/ \E s \in Servers : ConnOpen(s)
    \/ \E s \in Servers : ConnDone(s)
    \/ \E p \in Procs : Close(p)
    \/ \E p \in Procs : OnceWake(p)
    \/ Timeout
    \/ \E p \in Procs : close(p)

Spec == Init /\ [][Next]_vars

\* the steps the code's scheduling takes by itself: goroutines and callers
\* that are inside a call go on, and the clock of the context runs; signals,
\* accept failures, in-flight work and new calls from outside are not forced
Fairness ==
    /\ \A p \in Procs : WF_vars(close(p)) /\ WF_vars(OnceWake(p))
    /\ \A p \in {"main"} \cup Servers : WF_vars(Close(p))
    /\ \A s \in Servers : WF_vars(Serve(s)) /\ WF_vars(BindOk(s) \/ BindFail(s))
    /\ WF_vars(Timeout)

FairSpec == Spec /\ Fairness

\* the same, with every drain coming to an end: the in-flight work of a
\* server finishes
DrainSpec == FairSpec /\ \A s \in Servers : WF_vars(ConnDone(s))

----
\* vocabulary of the properties

Count(e) == Cardinality({i \in 1..Len(tlog) : tlog[i] = e})

\* position of the first occurrence of e in tlog, 0 when absent
Pos(e) == IF Logged(e) THEN CHOOSE i \in 1..Len(tlog) :
                               tlog[i] = e /\ \A j \in 1..(i-1) : tlog[j] # e
          ELSE 0

TeardownSteps == {"body", "closing", "grpc_begin", "grpc_end", "http_begin",
                  "http_end", "http_err", "debug_begin", "debug_end",
                  "debug_err"}

Returned == {p \in Procs : result[p] # "none"}

\* the teardown got past its guards and has returned
TeardownFinished == closeOnce = "done" /\ Logged("closing")

LifecycleState ==
    IF listening = "nil" THEN "Created"
    ELSE IF listening = "open" THEN "Listening"
    ELSE IF closeOnce = "done" THEN "Closed"
    ELSE "Closing"

Rank(st) ==
    IF st = "Created" THEN 0
    ELSE IF st = "Listening" THEN 1
    ELSE IF st = "Closing" THEN 2
    ELSE 3

----
\* C1: however many Close calls are made, by whichever callers, the body of
\* close runs at most once, it has run once as soon as a Close call has
\* returned, and no teardown step is ever taken a second time.  (When the
\* first Close comes before ListenAndServe, the one run of close is the one
\* that returns "server is not running".)
C1_TeardownOnce ==
    /\ Count("body") <= 1
    /\ Returned # {} => Count("body") = 1
    /\ \A e \in TeardownSteps : Count(e) <= 1

\* three Close calls have returned after a full teardown
C1_Witness ==
    /\ Cardinality(Returned) >= 3
    /\ Logged("debug_end")
    /\ Count("body") = 1

\* C2: all Close calls of one server return the same result as the winner.
C2_SameResult ==
    TeardownFinished =>
        \A p, q \in Returned : result[p] = result[q]

\* C3: the teardown stops gRPC, then HTTP, then debug: the HTTP shutdown
\* starts after GracefulStop returned, the debug shutdown starts after both
\* earlier stops completed, and until then the debug server is not told to
\* stop and a serving debug accept loop keeps its listener open.
C3_ShutdownOrder ==
    /\ Logged("http_begin") =>
           Logged("grpc_end") /\ Pos("grpc_end") < Pos("http_begin")
    /\ Logged("debug_begin") =>
           /\ Logged("grpc_end") /\ Pos("grpc_end") < Pos("debug_begin")
           /\ Logged("http_end") /\ Pos("http_end") < Pos("debug_begin")
    /\ (~Logged("grpc_end") \/ ~Logged("http_end")) =>
           /\ ~shut["debug"]
           /\ pc["debug"] = "serving" => sock["debug"] = "open"

\* gRPC and HTTP are stopped, the debug server is still serving
C3_Witness ==
    /\ closeOnce = "running"
    /\ Logged("http_end")
    /\ shut["grpc"] /\ shut["http"] /\ ~shut["debug"]
    /\ pc["debug"] = "serving"
    /\ sock["debug"] = "open"

\* C4: when the HTTP shutdown step fails, the debug shutdown step is run all
\* the same, so a finished teardown has always started the debug shutdown.
C4_ShutdownContinues ==
    (closeOnce = "done" /\ Logged("http_err")) => Logged("debug_begin")

\* C5: when ListenAndServe has returned a bind error after its cleanup ran,
\* no listener bound in that attempt is open any more.
C5_BindFailureClosesAll ==
    (pc["main"] = "done" /\ lasErr = "binderr" /\ TeardownFinished) =>
        \A s \in Servers : sock[s] # "open"

\* C6: once the teardown has finished and every accept loop that was spawned
\* has entered Serve, no listener of the server is open.
C6_NoListenerLeft ==
    (TeardownFinished /\ \A s \in Servers : pc[s] # "spawned") =>
        \A s \in Servers : sock[s] # "open"

\* C7: once the deadline of the running Close has passed, the Close call
\* comes to an end.
C7_DeadlineBoundsClose ==
    (closeOnce = "running" /\ ctxDone) ~> (closeOnce = "done")

\* a caller other than ListenAndServe's own deferred Close asked to close
CloseRequested ==
    \/ \E x \in Externals : pc[x] # "idle"
    \/ \E s \in Servers : pc[s] \in {"close", "once_wait"}

\* C8: while ListenAndServe waits, a Close request from outside or from an
\* accept loop that saw an error, which set the teardown going, makes
\* ListenAndServe return.
C8_CloseEndsListenAndServe ==
    (pc["main"] = "wait" /\ CloseRequested /\ Logged("closing"))
        ~> (pc["main"] = "done")

\* C9: when an accept loop ends with an error while the server is listening
\* and nothing has asked it to close yet, the teardown is eventually run and
\* all three servers are stopped.
C9_AcceptErrorShutsDown ==
    (listening = "open" /\ closeOnce = "fresh"
        /\ \E s \in Servers : pc[s] = "close")
        ~> (closeOnce = "done" /\ \A s \in Servers : shut[s])

\* C10: the lifecycle state never moves back: Created, Listening, Closing,
\* Closed are passed in this order, so that no state is entered again once
\* it has been left.
C10_LifecycleForward ==
    [][Rank(LifecycleState') >= Rank(LifecycleState)]_vars

Address(s) ==
    IF s = "debug" THEN DebugAddress
    ELSE IF s = "http" THEN HTTPAddress
    ELSE GRPCAddress

\* net.Listen succeeded for s in the current ListenAndServe call
Opened(s) == \E i \in 1..Len(binds) : binds[i].srv = s /\ binds[i].ok

\* ListenAndServe has bound everything and the server is not closing
Listening == pc["main"] = "wait" /\ listening = "open"

\* C11: no listener is ever opened for a service that is not configured and
\* its address query returns ""; while the server is listening, the listener
\* of every configured service has been opened and its address query returns
\* a non-empty address.
C11_ListenersOfConfig ==
    /\ \A s \in Servers \ cfg :
           sock[s] = "none" /\ ~Opened(s) /\ Address(s) = ""
    /\ Listening => \A s \in cfg : Opened(s) /\ Address(s) # ""

\* listening with debug and gRPC configured and HTTP absent
C11_Witness ==
    /\ Listening
    /\ cfg = {"debug", "grpc"}
    /\ HTTPAddress = "" /\ DebugAddress # "" /\ GRPCAddress # ""
    /\ sock["debug"] = "open" /\ sock["grpc"] = "open"

\* C12: once the server has entered Closing, the /ready probe of the debug
\* server, which is still serving, answers "not ready" whatever the health
\* checks of the application say.
C12_ReadyReflectsClosing ==
    (isClosing /\ pc["debug"] = "serving") =>
        \A healthy \in BOOLEAN : ReadyEndpoint(healthy) = "not ready"

\* C13: when ListenAndServe has returned nil after a signal and no drain step
\* failed, the teardown has run to its end and no listener is open.
C13_SignalReturnsAfterTeardown ==
    (pc["main"] = "done" /\ lasErr = "nil"
        /\ ~Logged("http_err") /\ ~Logged("debug_err")) =>
        /\ Logged("debug_end")
        /\ \A s \in Servers : sock[s] # "open"

\* the error the teardown produced
TeardownErr ==
    IF Logged("http_err") THEN "ErrHTTP"
    ELSE IF Logged("debug_err") THEN "ErrDebug"
    ELSE "nil"

\* C14: when the teardown has ended with an error, a caller of the server
\* has received this error: ListenAndServe returned it, or a Close call made
\* from outside did.
C14_ShutdownErrorReturned ==
    (closeOnce = "done" /\ TeardownErr # "nil") =>
        \/ lasErr = TeardownErr
        \/ \E x \in Externals : result[x] = TeardownErr

\* C15: while the teardown of the winner is in progress no Close call has
\* returned: a caller that lost the Once stays blocked until it is over.
C15_LosersWait ==
    closeOnce = "running" => Returned = {}

\* a loser is blocked while the winner waits for the HTTP connections
C15_Witness ==
    /\ \E p \in Procs : pc[p] = "once_wait"
    /\ \E q \in Procs : pc[q] = "c_http_wait"
    /\ "http" \in busy

\* C16: while ListenAndServe is still binding listeners, no accept loop has
\* been started.
C16_NoServeBeforeAllBound ==
    pc["main"] \in {"bind_debug", "bind_http", "bind_grpc"} =>
        \A s \in Servers : pc[s] \notin {"spawned", "serving"}

Order(s) == IF s = "debug" THEN 1 ELSE IF s = "http" THEN 2 ELSE 3

\* C17: the listeners are bound in the order debug, HTTP, gRPC: a bind is
\* attempted only after the bind of every configured service earlier in the
\* order succeeded, and a failed bind is the last one of the call.
C17_BindOrder ==
    \A i \in 1..Len(binds) :
        /\ binds[i].srv \in cfg
        /\ \A t \in cfg : Order(t) < Order(binds[i].srv) =>
               \E j \in 1..(i-1) : binds[j] = [srv |-> t, ok |-> TRUE]
        /\ \A j \in 1..(i-1) : Order(binds[j].srv) < Order(binds[i].srv)
        /\ ~binds[i].ok => i = Len(binds)

\* all three configured, the HTTP bind failed and ListenAndServe returned
C17_Witness ==
    /\ cfg = Servers
    /\ pc["main"] = "done"
    /\ Len(binds) = 2
    /\ binds[1] = [srv |-> "debug", ok |-> TRUE]
    /\ binds[2] = [srv |-> "http", ok |-> FALSE]

\* C18: an accept loop that ends because the teardown stopped its server does
\* not go on to call Close.
C18_IntentionalCloseNoTrigger ==
    [][\A s \in Servers :
          (pc[s] = "serving" /\ ~shut[s] /\ shut'[s]) =>
              pc'[s] \notin {"close", "once_wait"}]_vars

\* C19: a Close call returns nil, the 'server is not running' error, or the
\* error of the HTTP or debug shutdown step that failed; the gRPC stop adds
\* no error of its own.
C19_NoGrpcError ==
    \A p \in Procs :
        /\ result[p] \in {"none", "nil", "ErrNotRunning", "ErrHTTP", "ErrDebug"}
        /\ result[p] = "ErrHTTP" => Logged("http_err")
        /\ result[p] = "ErrDebug" => Logged("debug_err")

\* the deadline passed while a gRPC call was pending, and Close returned nil
C19_Witness ==
    /\ "grpc" \in cfg
    /\ ctxDone
    /\ tlog = <<"body", "closing", "grpc_begin", "grpc_end", "http_begin",
                "http_end", "debug_begin", "debug_end">>
    /\ \E p \in Procs : result[p] = "nil"

\* C20: after a Close call that came before ListenAndServe and returned the
\* 'server is not running' error, a ListenAndServe call that opened
\* listeners and has returned on a signal has run the teardown and left no
\* listener open.
C20_EarlyCloseHarmless ==
    (/\ pc["main"] = "done" /\ lasErr = "nil"
     /\ \E s \in Servers : Opened(s)
     /\ \E p \in Procs : result[p] = "ErrNotRunning") =>
        /\ Logged("closing")
        /\ \A s \in Servers : sock[s] # "open"

\* Within one teardown the order is kept: the channel is closed for as long
\* as the teardown runs, close(s.listening) precedes every stop, and every
\* step that stops a server is taken with the channel closed.
StopsWhileClosing ==
    /\ [](closeOnce = "running" => isClosing)
    /\ []((\E s \in Servers : shut[s]) =>
             /\ Logged("closing")
             /\ Pos("closing") < Pos("grpc_begin"))
    /\ [][(\E s \in Servers : ~shut[s] /\ shut'[s]) =>
              isClosing /\ isClosing']_vars

\* C21: the server enters Closing before any server is told to stop: in
\* every reachable state in which the teardown has begun stopping the gRPC,
\* HTTP or debug server, the listening channel is closed (isClosing).
C21_ClosingBeforeStop ==
    (\E s \in Servers : shut[s]) => isClosing

\* C22: the Once does not deadlock the shutdown: when every drain comes to
\* an end, a running teardown ends and every Close caller blocked on it,
\* the accept loops whose servers were stopped included, returns.
C22_NoDeadlock ==
    (closeOnce = "running")
        ~> (closeOnce = "done" /\ \A p \in Procs : pc[p] # "once_wait")

\* the HTTP accept loop, stopped by the teardown, is blocked in Close while
\* the winner is still shutting down the debug server
C22_Witness ==
    /\ pc["http"] = "once_wait"
    /\ shut["http"]
    /\ \E p \in Procs : pc[p] = "c_debug_wait"

====
